---- MODULE Spec2Model ----
(***************************************************************************)
(* State-machine model of the eCFR snapshot synchronisation pipeline:      *)
(*   - src/sync.ts          runSync (full-text download, word counts)      *)
(*   - src/unnamed/part_000 runSync ("Golden Path", structure size)        *)
(*   - src/server.tsx       getAgencyStats (aggregate series per agency)   *)
(* One action per await point of runSync.                                  *)
(***************************************************************************)
EXTENDS Integers, Sequences, FiniteSets, TLC

(***************************************************************************)
(* Bounds of the model                                                     *)
(***************************************************************************)
\* number of sequential runs of src/sync.ts against one store
MaxRuns == 2
\* document requests that may fail (non-2xx or thrown), over a whole behaviour
MaxFetchFailures == 6
\* store statements inside an attempt that may throw, over a whole behaviour
MaxDbFaults == 1

(***************************************************************************)
(* Program constants                                                       *)
(***************************************************************************)
\* sync.ts:7
AGENCY_LIMIT == 5
\* sync.ts:69  .slice(3, AGENCY_LIMIT + 3)
SLICE_START == 3
\* sync.ts:110  while (tries < 3 && !success)
MAX_TRIES == 3
\* sync.ts:156, 159  sleep(1000)
POLITE_MS == 1000
\* sync.ts:61  todaysDate, as a day number
Today == 20000

\* sync.ts:9-14: 60 days ago, 1 year ago, 2 years ago (most recent first)
SNAPSHOT_DATES == <<Today - 60, Today - 365, Today - 730>>

NULL == "NULL"

(***************************************************************************)
(* The agency directory feed (agencies.json)                               *)
(***************************************************************************)
Ref(t, ch) == [title |-> t, chapter |-> ch]

Agency(slug, name, short, refs) ==
    [slug |-> slug, name |-> name, short_name |-> short, cfr_references |-> refs]

\* three leading agencies that .slice(3, ...) drops, and one without references
Leading ==
    << Agency("x1", "X1", "X1", <<Ref(9, "I")>>),
       Agency("x2", "X2", "X2", <<Ref(9, "II")>>),
       Agency("nr", "NoRefs", "NR", <<>>),
       Agency("x3", "X3", "X3", <<Ref(9, "III")>>) >>

\* one agency referencing two titles
FeedTwoTitles ==
    Leading \o << Agency("a", "Agency A", "AA", <<Ref(1, "I"), Ref(2, "I")>>) >>

\* two agencies sharing one title
FeedShared ==
    Leading \o << Agency("a", "Agency A", "AA", <<Ref(1, "I")>>),
                  Agency("b", "Agency B", NULL, <<Ref(1, "II")>>) >>

\* one agency referencing two chapters of the same title
FeedChapters ==
    Leading \o << Agency("a", "Agency A", "AA", <<Ref(1, "I"), Ref(1, "II")>>) >>

\* a directory that lists no agency
FeedEmpty == << >>

Feeds == {FeedTwoTitles, FeedShared, FeedChapters, FeedEmpty}

Titles == {1, 2}
Keys == Titles \X {SNAPSHOT_DATES[i] : i \in 1..Len(SNAPSHOT_DATES)}

(***************************************************************************)
(* The upstream document feed: the document of a title at a past date is   *)
(* fixed; a request either fails or is answered 2xx with that document.    *)
(* A body is a sequence of characters.                                     *)
(***************************************************************************)
\* every document has words
CorpusText ==
    [k \in Keys |-> IF k[1] = 1 THEN <<"a", " ", "a">> ELSE <<"<", "a", ">", "a">>]

\* title 1 is answered 2xx with an empty, a markup-only and a whitespace-only body
CorpusGaps ==
    [k \in Keys |->
        IF k[1] = 1
        THEN IF k[2] = SNAPSHOT_DATES[1] THEN <<>>
             ELSE IF k[2] = SNAPSHOT_DATES[2] THEN <<"<", "a", ">">>
             ELSE <<" ", "\n">>
        ELSE <<"a", "\n", "a", " ", "a">>]

Corpora == {CorpusText, CorpusGaps}

(***************************************************************************)
(* Pure helpers of src/sync.ts                                             *)
(***************************************************************************)
IsSpace(c) == c \in {" ", "\n"}

\* index of the first ">" of s, 0 when there is none
FirstGt(s) ==
    IF \E i \in 1..Len(s) : s[i] = ">"
    THEN CHOOSE i \in 1..Len(s) : s[i] = ">" /\ \A j \in 1..(i - 1) : s[j] # ">"
    ELSE 0

\* xml.replace(/<[^>]*>/g, " ")
RECURSIVE StripTags(_)
StripTags(s) ==
    IF s = <<>> THEN <<>>
    ELSE IF Head(s) = "<" /\ FirstGt(Tail(s)) > 0
         THEN <<" ">> \o StripTags(SubSeq(s, FirstGt(Tail(s)) + 2, Len(s)))
         ELSE <<Head(s)>> \o StripTags(Tail(s))

\* .replace(/\s+/g, " ")
RECURSIVE CollapseSpace(_)
CollapseSpace(s) ==
    IF s = <<>> THEN <<>>
    ELSE IF IsSpace(Head(s))
         THEN IF Len(s) > 1 /\ IsSpace(s[2])
              THEN CollapseSpace(Tail(s))
              ELSE <<" ">> \o CollapseSpace(Tail(s))
         ELSE <<Head(s)>> \o CollapseSpace(Tail(s))

\* .trim()
RECURSIVE Trim(_)
Trim(s) ==
    IF s = <<>> THEN <<>>
    ELSE IF IsSpace(Head(s)) THEN Trim(Tail(s))
    ELSE IF IsSpace(s[Len(s)]) THEN Trim(SubSeq(s, 1, Len(s) - 1))
    ELSE s

cleanText(xml) == Trim(CollapseSpace(StripTags(xml)))

\* text.split(" ").length
SplitLength(text) == Cardinality({i \in 1..Len(text) : text[i] = " "}) + 1

CharCode(c) ==
    CASE c = "<" -> 60 [] c = ">" -> 62 [] c = " " -> 32 [] c = "\n" -> 10 [] OTHER -> 97

\* createHash("sha256").update(text).digest("hex").substring(0, 12), abstracted
\* to a deterministic digest over a two-value range
RECURSIVE getChecksum(_)
getChecksum(text) ==
    IF text = <<>> THEN 0
    ELSE (getChecksum(SubSeq(text, 1, Len(text) - 1)) * 3 + CharCode(text[Len(text)])) % 2

\* (data.agencies || []).filter(a => a.cfr_references && a.cfr_references.length > 0)
FilterWithRefs(list) == SelectSeq(list, LAMBDA a : Len(a.cfr_references) > 0)

\* Array.prototype.slice(from, to): zero-based, to exclusive, clipped to the length
Slice(list, from, to) ==
    SubSeq(list, from + 1, IF to < Len(list) THEN to ELSE Len(list))

SelectAgencies(data) == Slice(FilterWithRefs(data), SLICE_START, AGENCY_LIMIT + SLICE_START)

\* the backoff with the seconds passed to sleep() unscaled
BackoffMsUnscaled(t) == (3 * t) * (3 * t)

\* (3*tries)**2 seconds, slept as 1000 * seconds ms
BackoffMs(t) == 1000 * ((3 * t) * (3 * t))

\* the loop condition off by one
LoopContinuesOffByOne(t, ok) == t <= MAX_TRIES /\ ~ok

\* while (tries < 3 && !success)
LoopContinues(t, ok) == t < MAX_TRIES /\ ~ok

(***************************************************************************)
(* State                                                                   *)
(***************************************************************************)
VARIABLES
    \* the store (ecfr.sqlite) as src/sync.ts declares it; a row's id is its index
    agencies_tbl,        \* rows of agencies, slug is the primary key
    agency_references,   \* rows of agency_references (no uniqueness constraint)
    snapshots,           \* rows of snapshots (no uniqueness constraint)
    \* runSync of src/sync.ts
    data,                \* agencies.json as the directory request returns it
    upstream,            \* the document of each (title, date)
    pc,                  \* await point the run is at
    run,                 \* number of runs started
    agencies,            \* the filtered, sliced agency list of this run
    ai, ri, di,          \* positions of the three nested loops
    processedSnapshots,  \* in-run set of resolved keys
    tries, success,      \* retry loop locals
    wordCount, checksum, \* locals between the response and the store statements (0 outside)
    \* observation of the run (not program state)
    outstanding,         \* document requests issued and not yet answered
    requested,           \* a document request was issued earlier in this run
    slept,               \* ms slept since the last document request of this run
    allFailed,           \* every request of the current visit failed so far
    atStart,             \* keys that had a snapshot row when this run started
    feedOfRun,           \* per run, the agency feed it received
    visited,             \* (agency, reference, date) combinations this run cache-checked
    exhausted,           \* keys a visit of this run left after MAX_TRIES failures
    exhaustedPrev,       \* the same for the previous run
    dbFaults,            \* store statements that threw so far
    fetchFailures,       \* document requests that failed so far
    clean,               \* per run: no request and no store statement failed
    countsAfter,         \* per run: row counts of the three tables at its end
    \* the store as src/unnamed/part_000 declares it
    g_agencies,          \* rows of agencies, slug is the primary key
    g_references,        \* rows of agency_references, UNIQUE(agency_slug, title_number)
    g_snapshots,         \* rows of snapshots, UNIQUE(title_number, snapshot_date)
    \* runSync of src/unnamed/part_000, one instance per worker process
    g_data,              \* agencies.json as the directory request returns it
    g_pc,                \* await point each worker is at
    g_agencyList,        \* the filtered agency list of each worker
    g_pos,               \* positions of the three nested loops of each worker
    checkedSnapshots,    \* in-run set of checked keys of each worker
    g_size,              \* local size between the response and the insert
    g_requested,         \* the worker issued a document request earlier
    g_slept,             \* ms the worker slept since its last document request
    g_rejected,          \* (worker, key) of the inserts the store rejected
    stats,               \* the last result of getAgencyStats
    statsSlug,           \* the slug it was called with, NULL before the first call
    divisors             \* the years that call divided by

storeVars == <<agencies_tbl, agency_references, snapshots>>
loopVars == <<agencies, ai, ri, di>>
tryVars == <<tries, success, wordCount, checksum>>
obsVars == <<outstanding, requested, slept, allFailed, atStart, feedOfRun, visited, exhausted,
             exhaustedPrev, dbFaults, fetchFailures, clean, countsAfter>>
envVars == <<data, upstream>>
syncVars == <<storeVars, envVars, pc, run, loopVars, processedSnapshots, tryVars, obsVars>>
goldenVars == <<g_agencies, g_references, g_snapshots, g_data, g_pc, g_agencyList, g_pos,
                checkedSnapshots, g_size, g_requested, g_slept, g_rejected>>
statsVars == <<stats, statsSlug, divisors>>
vars == <<statsVars, goldenVars, storeVars, envVars, pc, run, loopVars, processedSnapshots, tryVars, obsVars>>

agency == agencies[ai]
reference == agency.cfr_references[ri]
title == reference.title
date == SNAPSHOT_DATES[di]
cacheKey == <<title, date>>

\* the lookup with its two parameters bound in the wrong order
ExistingSwapped(rows, t, d) ==
    {i \in 1..Len(rows) : rows[i].title = d /\ rows[i].snapshot_date = t}

\* SELECT id FROM snapshots WHERE title = ${title} AND snapshot_date = ${date}
Existing(rows, t, d) ==
    {i \in 1..Len(rows) : rows[i].title = t /\ rows[i].snapshot_date = d}

KeysStored(rows) == {<<rows[i].title, rows[i].snapshot_date>> : i \in 1..Len(rows)}

Counts == <<Len(agencies_tbl), Len(agency_references), Len(snapshots)>>

\* a worker of part_000 that has not started
Workers == {"w1", "w2"}

GoldenIdle ==
    /\ g_agencies = <<>>
    /\ g_references = <<>>
    /\ g_snapshots = <<>>
    /\ g_pc = [w \in Workers |-> "idle"]
    /\ g_agencyList = [w \in Workers |-> <<>>]
    /\ g_pos = [w \in Workers |-> [ai |-> 1, ri |-> 1, di |-> 1]]
    /\ checkedSnapshots = [w \in Workers |-> {}]
    /\ g_size = [w \in Workers |-> NULL]
    /\ g_requested = [w \in Workers |-> FALSE]
    /\ g_slept = [w \in Workers |-> 0]
    /\ g_rejected = {}

StoreEmpty ==
    /\ agencies_tbl = <<>>
    /\ agency_references = <<>>
    /\ snapshots = <<>>

StatsIdle ==
    /\ stats = [velocity |-> 0, latest_count |-> 0, history |-> <<>>]
    /\ statsSlug = NULL
    /\ divisors = {}

WorkerIdle ==
    /\ pc = "idle"
    /\ run = 0
    /\ agencies = <<>>
    /\ ai = 1 /\ ri = 1 /\ di = 1
    /\ processedSnapshots = {}
    /\ tries = 0 /\ success = FALSE
    /\ wordCount = 0 /\ checksum = 0
    /\ outstanding = 0
    /\ requested = FALSE
    /\ slept = 0
    /\ allFailed = TRUE
    /\ atStart = {}
    /\ feedOfRun = <<>>
    /\ visited = {}
    /\ exhausted = {}
    /\ exhaustedPrev = {}
    /\ dbFaults = 0
    /\ fetchFailures = 0
    /\ clean = <<>>
    /\ countsAfter = <<>>

SyncIdle == StoreEmpty /\ WorkerIdle /\ StatsIdle

Init ==
    /\ data \in Feeds
    /\ upstream \in Corpora
    /\ SyncIdle
    /\ g_data = <<>>
    /\ GoldenIdle

(***************************************************************************)
(* runSync of src/sync.ts                                                  *)
(***************************************************************************)
\* control after the body of the date loop: next date, or the sleep that
\* follows the date loop (line 159)
NextDate ==
    IF di < Len(SNAPSHOT_DATES)
    THEN /\ di' = di + 1 /\ pc' = "check"
    ELSE /\ di' = di /\ pc' = "refsleep"

\* the try block completed: lines 144-145, then the loop exits to line 156
AttemptSucceeds ==
    /\ processedSnapshots' = processedSnapshots \cup {cacheKey}
    /\ success' = TRUE
    /\ pc' = "polite"

\* lines 60-71: the directory request, the filter and the slice
StartRun ==
    /\ pc \in {"idle", "done", "aborted"}
    /\ run < MaxRuns
    /\ agencies' = SelectAgencies(data)
    /\ pc' = IF SelectAgencies(data) = <<>> THEN "done" ELSE "agency"
    /\ run' = run + 1
    /\ ai' = 1 /\ ri' = 1 /\ di' = 1
    /\ processedSnapshots' = {}
    /\ tries' = 0 /\ success' = FALSE
    /\ requested' = FALSE
    /\ slept' = 0
    /\ allFailed' = TRUE
    /\ atStart' = KeysStored(snapshots)
    /\ feedOfRun' = Append(feedOfRun, data)
    /\ visited' = {}
    /\ exhaustedPrev' = exhausted
    /\ exhausted' = {}
    /\ clean' = Append(clean, TRUE)
    /\ UNCHANGED <<statsVars, goldenVars, storeVars, envVars, wordCount, checksum, outstanding, dbFaults,
                   fetchFailures, countsAfter>>

\* lines 63-64: the directory request (or the parse of its body) throws; the
\* promise of runSync rejects before the run has an agency list
DirectoryRequestFails ==
    /\ pc \in {"idle", "done", "aborted"}
    /\ run < MaxRuns
    /\ agencies' = <<>>
    /\ pc' = "aborted"
    /\ run' = run + 1
    /\ ai' = 1 /\ ri' = 1 /\ di' = 1
    /\ processedSnapshots' = {}
    /\ tries' = 0 /\ success' = FALSE
    /\ requested' = FALSE
    /\ slept' = 0
    /\ allFailed' = TRUE
    /\ atStart' = KeysStored(snapshots)
    /\ feedOfRun' = Append(feedOfRun, <<>>)
    /\ visited' = {}
    /\ exhaustedPrev' = exhausted
    /\ exhausted' = {}
    /\ clean' = Append(clean, FALSE)
    /\ UNCHANGED <<statsVars, goldenVars, storeVars, envVars, wordCount, checksum, outstanding, dbFaults,
                   fetchFailures, countsAfter>>

\* a store statement outside the try block throws: the upsert of lines 75-79,
\* the INSERT OR IGNORE of lines 83-86 or the SELECT of lines 96-99, which runs
\* when the key is not in processedSnapshots; nothing catches it and the
\* promise of runSync rejects
StatementOutsideTryThrows ==
    /\ \/ pc \in {"agency", "reference"}
       \/ pc = "check" /\ cacheKey \notin processedSnapshots
    /\ dbFaults < MaxDbFaults
    /\ dbFaults' = dbFaults + 1
    /\ clean' = [clean EXCEPT ![run] = FALSE]
    /\ pc' = "aborted"
    /\ UNCHANGED <<statsVars, goldenVars, storeVars, envVars, run, loopVars, processedSnapshots, tryVars,
                   outstanding, requested, slept, allFailed, atStart, feedOfRun, visited, exhausted,
                   exhaustedPrev, fetchFailures, countsAfter>>

\* lines 74-79: INSERT INTO agencies ... ON CONFLICT(slug) DO UPDATE SET name
shortName == IF agency.short_name = NULL THEN agency.name ELSE agency.short_name

UpsertRows(rows, a, short) ==
    IF \E i \in 1..Len(rows) : rows[i].slug = a.slug
    THEN [i \in 1..Len(rows) |->
            IF rows[i].slug = a.slug THEN [rows[i] EXCEPT !.name = a.name] ELSE rows[i]]
    ELSE Append(rows, [slug |-> a.slug, name |-> a.name, short_name |-> short,
                       latest_word_count |-> NULL, latest_checksum |-> NULL,
                       last_updated_date |-> NULL])

UpsertAgency ==
    /\ pc = "agency"
    /\ agencies_tbl' = UpsertRows(agencies_tbl, agency, shortName)
    /\ ri' = 1
    /\ pc' = "reference"
    /\ UNCHANGED <<agency_references, snapshots, envVars, statsVars, goldenVars, run, agencies, ai, di,
                   processedSnapshots, tryVars, obsVars>>

\* lines 81-86: INSERT OR IGNORE INTO agency_references; the table declares no
\* constraint a new row could violate, so nothing is ever ignored
InsertOrIgnoreReference(rows, slug, t, ch) ==
    Append(rows, [agency_slug |-> slug, title_number |-> t, chapter |-> ch])

InsertReference ==
    /\ pc = "reference"
    /\ agency_references' =
         InsertOrIgnoreReference(agency_references, agency.slug, title, reference.chapter)
    /\ di' = 1
    /\ pc' = "check"
    /\ UNCHANGED <<agencies_tbl, snapshots, envVars, statsVars, goldenVars, run, agencies, ai, ri,
                   processedSnapshots, tryVars, obsVars>>

\* lines 89-109: memory cache, then the store lookup, then the retry locals
CheckCache ==
    /\ pc = "check"
    /\ visited' = visited \cup {<<agency.slug, ri, date>>}
    /\ IF cacheKey \in processedSnapshots
       THEN /\ NextDate
            /\ UNCHANGED <<processedSnapshots, tries, success, allFailed>>
       ELSE IF Existing(snapshots, title, date) # {}
       THEN /\ processedSnapshots' = processedSnapshots \cup {cacheKey}
            /\ NextDate
            /\ UNCHANGED <<tries, success, allFailed>>
       ELSE /\ tries' = 0 /\ success' = FALSE
            /\ allFailed' = TRUE
            /\ pc' = "attempt" /\ di' = di
            /\ UNCHANGED processedSnapshots
    /\ UNCHANGED <<statsVars, goldenVars, storeVars, envVars, run, agencies, ai, ri, wordCount, checksum, outstanding,
                   requested, slept, atStart, feedOfRun, exhausted, exhaustedPrev, dbFaults,
                   fetchFailures, clean, countsAfter>>

\* lines 110-115: tries++, then the document request is issued
IssueRequest ==
    /\ pc = "attempt"
    /\ tries' = tries + 1
    /\ outstanding' = outstanding + 1
    /\ requested' = TRUE
    /\ slept' = 0
    /\ pc' = "fetching"
    /\ UNCHANGED <<statsVars, goldenVars, storeVars, envVars, run, loopVars, processedSnapshots, success, wordCount,
                   checksum, allFailed, atStart, feedOfRun, visited, exhausted, exhaustedPrev, dbFaults,
                   fetchFailures, clean, countsAfter>>

\* line 115 throws (network error), or lines 116-119: a non-2xx status throws
ResponseFails ==
    /\ pc = "fetching"
    /\ fetchFailures < MaxFetchFailures
    /\ fetchFailures' = fetchFailures + 1
    /\ outstanding' = outstanding - 1
    /\ clean' = [clean EXCEPT ![run] = FALSE]
    /\ pc' = "catch"
    /\ UNCHANGED <<statsVars, goldenVars, storeVars, envVars, run, loopVars, processedSnapshots, tryVars,
                   requested, slept, allFailed, atStart, feedOfRun, visited, exhausted, exhaustedPrev,
                   dbFaults, countsAfter>>

\* lines 121-126: a 2xx response; the body is cleaned, counted and digested
ResponseOk ==
    /\ pc = "fetching"
    /\ LET xml == upstream[cacheKey]
           text == cleanText(xml)
       IN  /\ wordCount' = SplitLength(text)
           /\ checksum' = getChecksum(text)
    /\ outstanding' = outstanding - 1
    /\ allFailed' = FALSE
    /\ pc' = "insert"
    /\ UNCHANGED <<statsVars, goldenVars, storeVars, envVars, run, loopVars, processedSnapshots, tries, success,
                   requested, slept, atStart, feedOfRun, visited, exhausted, exhaustedPrev, dbFaults,
                   fetchFailures, clean, countsAfter>>

\* the INSERT preceded by DELETE FROM snapshots WHERE title = t
InsertSnapshotReplacingTitle(rows, t, d, wc, cs) ==
    Append(SelectSeq(rows, LAMBDA r : r.title # t),
           [title |-> t, snapshot_date |-> d, word_count |-> wc, checksum |-> cs])

\* lines 128-131: INSERT INTO snapshots (title, snapshot_date, word_count, checksum)
InsertSnapshotRow(rows, t, d, wc, cs) ==
    Append(rows, [title |-> t, snapshot_date |-> d, word_count |-> wc, checksum |-> cs])

\* lines 128-131: INSERT INTO snapshots, then line 135
InsertSnapshot ==
    /\ pc = "insert"
    /\ snapshots' = InsertSnapshotRow(snapshots, title, date, wordCount, checksum)
    /\ IF date = SNAPSHOT_DATES[1]
       THEN /\ pc' = "update"
            /\ UNCHANGED <<processedSnapshots, success, wordCount, checksum>>
       ELSE /\ AttemptSucceeds
            /\ wordCount' = 0 /\ checksum' = 0
    /\ UNCHANGED <<agencies_tbl, agency_references, envVars, statsVars, goldenVars, run, loopVars, tries, obsVars>>

\* lines 136-145: UPDATE agencies SET latest_... WHERE slug = ${agency.slug}
UpdateLatest(rows, slug, wc, cs) ==
    [i \in 1..Len(rows) |->
        IF rows[i].slug = slug
        THEN [rows[i] EXCEPT !.latest_word_count = wc, !.latest_checksum = cs,
                             !.last_updated_date = Today]
        ELSE rows[i]]

UpdateAgency ==
    /\ pc = "update"
    /\ agencies_tbl' = UpdateLatest(agencies_tbl, agency.slug, wordCount, checksum)
    /\ AttemptSucceeds
    /\ wordCount' = 0 /\ checksum' = 0
    /\ UNCHANGED <<agency_references, snapshots, envVars, statsVars, goldenVars, run, loopVars, tries, obsVars>>

\* a store statement inside the try block (line 128 or line 136) throws
StoreStatementThrows ==
    /\ pc \in {"insert", "update"}
    /\ dbFaults < MaxDbFaults
    /\ dbFaults' = dbFaults + 1
    /\ clean' = [clean EXCEPT ![run] = FALSE]
    /\ wordCount' = 0 /\ checksum' = 0
    /\ pc' = "catch"
    /\ UNCHANGED <<statsVars, goldenVars, storeVars, envVars, run, loopVars, processedSnapshots, tries, success,
                   outstanding, requested, slept, allFailed, atStart, feedOfRun, visited, exhausted,
                   exhaustedPrev, fetchFailures, countsAfter>>

\* lines 146-152: the backoff sleep, then the loop condition of line 110
Backoff ==
    /\ pc = "catch"
    /\ slept' = slept + BackoffMs(tries)
    /\ IF LoopContinues(tries, success)
       THEN /\ pc' = "attempt"
            /\ UNCHANGED exhausted
       ELSE /\ pc' = "polite"
            /\ exhausted' = exhausted \cup {cacheKey}
    /\ UNCHANGED <<statsVars, goldenVars, storeVars, envVars, run, loopVars, processedSnapshots, tryVars, outstanding,
                   requested, allFailed, atStart, feedOfRun, visited, exhaustedPrev, dbFaults, fetchFailures,
                   clean, countsAfter>>

\* line 156: sleep(1000) after the retry loop
PoliteSleep ==
    /\ pc = "polite"
    /\ slept' = slept + POLITE_MS
    /\ NextDate
    /\ UNCHANGED <<statsVars, goldenVars, storeVars, envVars, run, agencies, ai, ri, processedSnapshots, tryVars,
                   outstanding, requested, allFailed, atStart, feedOfRun, visited, exhausted,
                   exhaustedPrev, dbFaults, fetchFailures, clean, countsAfter>>

\* line 159: sleep(1000) after the date loop, then the next reference or agency
RefSleep ==
    /\ pc = "refsleep"
    /\ slept' = slept + POLITE_MS
    /\ IF ri < Len(agency.cfr_references)
       THEN /\ ri' = ri + 1 /\ ai' = ai /\ pc' = "reference"
            /\ UNCHANGED countsAfter
       ELSE IF ai < Len(agencies)
       THEN /\ ai' = ai + 1 /\ ri' = ri /\ pc' = "agency"
            /\ UNCHANGED countsAfter
       ELSE /\ pc' = "done" /\ ai' = ai /\ ri' = ri
            /\ countsAfter' = Append(countsAfter, Counts)
    /\ UNCHANGED <<statsVars, goldenVars, storeVars, envVars, run, agencies, di, processedSnapshots, tryVars,
                   outstanding, requested, allFailed, atStart, feedOfRun, visited, exhausted,
                   exhaustedPrev, dbFaults, fetchFailures, clean>>

\* the directory with every display name changed
Rename(feed) ==
    [i \in 1..Len(feed) |-> [feed[i] EXCEPT !.name = "Renamed", !.short_name = "RN"]]

\* lines 63-64 read the directory anew in every run: between two runs the
\* upstream may have changed the display names of its agencies
FeedChanges ==
    /\ pc = "done"
    /\ data # Rename(data)
    /\ data' = Rename(data)
    /\ UNCHANGED <<statsVars, goldenVars, storeVars, upstream, pc, run, loopVars,
                   processedSnapshots, tryVars, obsVars>>

Next ==
    \/ StartRun
    \/ DirectoryRequestFails
    \/ StatementOutsideTryThrows
    \/ FeedChanges
    \/ UpsertAgency
    \/ InsertReference
    \/ CheckCache
    \/ IssueRequest
    \/ ResponseFails
    \/ ResponseOk
    \/ InsertSnapshot
    \/ UpdateAgency
    \/ StoreStatementThrows
    \/ Backoff
    \/ PoliteSleep
    \/ RefSleep

Spec == Init /\ [][Next]_vars

PcValues ==
    {"idle", "agency", "reference", "check", "attempt", "fetching", "insert",
     "update", "catch", "polite", "refsleep", "done", "aborted"}

\* the worker can take a step: a run is under way, or another may start
CanStep == pc \notin {"idle", "done", "aborted"} \/ run < MaxRuns

\* a step of runSync seen through the position: every action of the worker
\* moves pc or starts a run, so under Spec an Advance step is exactly such a step
Advance ==
    /\ CanStep
    /\ \E p \in PcValues, r \in 0..MaxRuns :
          /\ <<p, r>> # <<pc, run>>
          /\ pc' = p
          /\ run' = r

\* the single worker always resumes after an await: a step that can be taken is taken
SpecFair == Spec /\ WF_<<pc, run>>(Advance)

(***************************************************************************)
(* getAgencyStats of src/server.tsx, read over the store                   *)
(***************************************************************************)
\* FROM agency_references ar JOIN snapshots s ON s.title = ar.title_number
\* WHERE ar.agency_slug = $slug: the joined (reference row, snapshot row) pairs
JoinRows(refs, snaps, slug) ==
    {<<i, j>> \in (1..Len(refs)) \X (1..Len(snaps)) :
        /\ refs[i].agency_slug = slug
        /\ snaps[j].title = refs[i].title_number}

\* SUM(s.word_count) over a group of joined pairs
RECURSIVE SumWords(_, _)
SumWords(group, snaps) ==
    IF group = {} THEN 0
    ELSE LET p == CHOOSE q \in group : TRUE
         IN  snaps[p[2]].word_count + SumWords(group \ {p}, snaps)

\* ORDER BY s.snapshot_date DESC over the GROUP BY keys
RECURSIVE OrderDesc(_)
OrderDesc(dates) ==
    IF dates = {} THEN <<>>
    ELSE LET m == CHOOSE d \in dates : \A e \in dates : e <= d
         IN  <<m>> \o OrderDesc(dates \ {m})

\* ORDER BY s.snapshot_date DESC over the joined rows themselves
RECURSIVE OrderRowsDesc(_, _)
OrderRowsDesc(group, snaps) ==
    IF group = {} THEN <<>>
    ELSE LET p == CHOOSE q \in group :
                    \A r \in group : snaps[r[2]].snapshot_date <= snaps[q[2]].snapshot_date
         IN  <<[snapshot_date |-> snaps[p[2]].snapshot_date,
                total_words |-> snaps[p[2]].word_count]>>
             \o OrderRowsDesc(group \ {p}, snaps)

\* the query without its GROUP BY: one entry per joined row
HistoryUngrouped(refs, snaps, slug) == OrderRowsDesc(JoinRows(refs, snaps, slug), snaps)

\* lines 146-155: the aggregate series of an agency
History(refs, snaps, slug) ==
    LET joined == JoinRows(refs, snaps, slug)
        dates == OrderDesc({snaps[p[2]].snapshot_date : p \in joined})
    IN  [n \in 1..Len(dates) |->
            [snapshot_date |-> dates[n],
             total_words |->
                SumWords({p \in joined : snaps[p[2]].snapshot_date = dates[n]}, snaps)]]

\* Math.ceil(msDiff / (1000 * 60 * 60 * 24 * 365.25)) for dates d days apart
CeilYears(d) == (4 * d + 1460) \div 1461

\* Math.round(diff / years) for an integer years > 0: halves round up
RoundDiv(diff, years) == (2 * diff + years) \div (2 * years)

\* lines 166-170: the years between the newest and the oldest entry
Years(history) ==
    CeilYears(history[1].snapshot_date - history[Len(history)].snapshot_date)

\* lines 164 and 175: the division is reached and its guard years > 0.01 holds
Divides(history) == Len(history) >= 2 /\ Years(history) > 0

\* the variant that sets latest_count only inside the two-point block
getAgencyStatsLatestInside(slug) ==
    LET history == History(agency_references, snapshots, slug)
    IN  [velocity |->
            IF Divides(history)
            THEN RoundDiv(history[1].total_words - history[Len(history)].total_words,
                          Years(history))
            ELSE 0,
         latest_count |-> IF Len(history) >= 2 THEN history[1].total_words ELSE 0,
         history |-> history]

\* lines 157-179
getAgencyStats(slug) ==
    LET history == History(agency_references, snapshots, slug)
        newest == history[1]
        oldest == history[Len(history)]
    IN  [velocity |->
            IF Divides(history)
            THEN RoundDiv(newest.total_words - oldest.total_words, Years(history))
            ELSE 0,
         latest_count |-> IF Len(history) > 0 THEN newest.total_words ELSE 0,
         history |-> history]

\* slugs and, per slug, the titles the store's reference rows name
StoredSlugs == {agency_references[i].agency_slug : i \in 1..Len(agency_references)}

TitlesOf(slug) ==
    {agency_references[i].title_number :
        i \in {j \in 1..Len(agency_references) : agency_references[j].agency_slug = slug}}

(***************************************************************************)
(* Properties of src/sync.ts                                               *)
(***************************************************************************)
RowsOf(k) == {i \in 1..Len(snapshots) : snapshots[i].title = k[1]
                                       /\ snapshots[i].snapshot_date = k[2]}

\* C1: in every reachable state, also after a store statement inside an attempt
\* failed and the attempt was retried, snapshots holds at most one row per
\* (title, snapshot_date).
C1_AtMostOneSnapshotPerKey ==
    \A k \in Keys : Cardinality(RowsOf(k)) <= 1

\* C2: after a second run against the same feed in which, as in the run before
\* it, every fetch succeeded, the three tables hold as many rows as after the
\* run before.
C2_RerunKeepsRowCounts ==
    (pc = "done" /\ run >= 2 /\ Len(countsAfter) = run /\ clean[run] /\ clean[run - 1]
        /\ feedOfRun[run] = feedOfRun[run - 1])
        => countsAfter[run] = countsAfter[run - 1]

\* C3: no document request is outstanding for a (title, date) that had a
\* snapshot row when the run started.
C3_NoRequestForStoredKey ==
    pc = "fetching" => cacheKey \notin atStart

\* a later run ended in which stored keys were skipped and another key was requested
C3_Witness ==
    /\ run >= 2 /\ pc = "done"
    /\ atStart # {}
    /\ atStart \subseteq processedSnapshots
    /\ requested

\* C4: a visit in which every request failed ends after exactly MAX_TRIES
\* requests with the key unmarked and no snapshot row for it, and in a later
\* run a visit of a key left that way, still without a row, goes on to request
\* it (the SELECT of the visit answering).
C4_ExhaustedVisit ==
    (pc = "polite" /\ allFailed)
        => /\ tries = MAX_TRIES
           /\ cacheKey \notin processedSnapshots
           /\ RowsOf(cacheKey) = {}

C4_LaterRunRequests ==
    (pc = "check" /\ run >= 2 /\ cacheKey \in exhaustedPrev /\ RowsOf(cacheKey) = {}
        /\ dbFaults' = dbFaults)
        => pc' = "attempt"

C4_RetryExhaustion == [](C4_ExhaustedVisit) /\ [][C4_LaterRunRequests]_vars

\* a later run has a request outstanding for a key that three failed requests
\* left unresolved in the run before
C4_Witness ==
    /\ run >= 2 /\ pc = "fetching"
    /\ cacheKey \in exhaustedPrev
    /\ dbFaults = 0
    /\ fetchFailures >= MAX_TRIES

\* C5: at the end of a run, every date of an agency's series has a snapshot
\* of every title the agency references.
C5_NoPartialSums ==
    pc = "done" =>
        \A slug \in StoredSlugs :
            LET history == getAgencyStats(slug).history
            IN  \A n \in 1..Len(history) : \A t \in TitlesOf(slug) :
                    RowsOf(<<t, history[n].snapshot_date>>) # {}

\* word count of the snapshot of (t, d), 0 when there is none
WordsOf(t, d) ==
    IF RowsOf(<<t, d>>) = {} THEN 0
    ELSE snapshots[CHOOSE i \in RowsOf(<<t, d>>) : \A j \in RowsOf(<<t, d>>) : i <= j].word_count

RECURSIVE SumOverTitles(_, _)
SumOverTitles(ts, d) ==
    IF ts = {} THEN 0
    ELSE LET t == CHOOSE x \in ts : TRUE
         IN  WordsOf(t, d) + SumOverTitles(ts \ {t}, d)

\* C6: at the end of any run, an agency's history has exactly one entry per
\* date on which a referenced title has a snapshot, strictly descending, each
\* total the sum over the distinct referenced titles of the title's word count.
C6_HistoryIsPerTitleSum ==
    pc = "done" =>
        \A slug \in StoredSlugs :
            LET history == getAgencyStats(slug).history
                dates == {k[2] : k \in {q \in Keys : q[1] \in TitlesOf(slug) /\ RowsOf(q) # {}}}
            IN  /\ {history[n].snapshot_date : n \in 1..Len(history)} = dates
                /\ Len(history) = Cardinality(dates)
                /\ \A n \in 1..(Len(history) - 1) :
                        history[n].snapshot_date > history[n + 1].snapshot_date
                /\ \A n \in 1..Len(history) :
                        history[n].total_words =
                            SumOverTitles(TitlesOf(slug), history[n].snapshot_date)

\* a body without words: nothing is left once markup and whitespace are removed
NoWords(xml) == \A i \in 1..Len(StripTags(xml)) : IsSpace(StripTags(xml)[i])

\* C7: a 2xx response whose body has no words gives a word count of 0, no
\* snapshot row is inserted for its key and the key is not marked resolved.
C7_NoWordsNotPersisted ==
    /\ (pc = "insert" /\ NoWords(upstream[cacheKey])) => wordCount = 0
    /\ \A k \in Keys : NoWords(upstream[k]) =>
            (RowsOf(k) = {} /\ k \notin processedSnapshots)

\* C8: a document request that is not the first of its run is issued only
\* after at least POLITE_MS of sleep since the request before it, and at most
\* one request is outstanding.
C8_IssueAfterSleep ==
    (pc = "attempt" /\ pc' = "fetching" /\ requested) => slept >= POLITE_MS

C8_RequestsSpaced == [](outstanding <= 1) /\ [][C8_IssueAfterSleep]_vars

\* a retry is about to be issued right after the backoff of a failed attempt
C8_Witness ==
    /\ pc = "attempt" /\ requested
    /\ tries > 0
    /\ slept = BackoffMs(tries)

\* every (agency, reference, date) combination of the agency list of the run
AllCombinations(list) ==
    {<<list[a].slug, r, SNAPSHOT_DATES[d]>> :
        <<a, r, d>> \in {x \in (1..Len(list)) \X (1..2) \X (1..Len(SNAPSHOT_DATES)) :
                            x[2] <= Len(list[x[1]].cfr_references)}}

\* C11: whatever document requests fail, a started run reaches its end, and by
\* then every (reference, date) combination of every agency in the feed has
\* been visited (cache-checked, and requested on a miss).
C11_EveryFeedAgencyVisited ==
    (pc = "done" /\ run >= 1) => AllCombinations(data) \subseteq visited

\* What does hold, on every fair run, for the agencies the run selects
\* (lines 67-69): the run ends, and no failed document request but only a
\* throwing store statement ends it early; at its regular end every
\* combination of theirs has been cache-checked, and a miss whose SELECT
\* answered goes on to the request.
C11_AllVisitedAtEnd ==
    pc = "done" => visited = AllCombinations(agencies)

C11_MissIsRequested ==
    (pc = "check" /\ cacheKey \notin processedSnapshots /\ RowsOf(cacheKey) = {})
        => (pc' = "attempt" \/ dbFaults' > dbFaults)

C11_EndsEarlyOnlyOnStoreFault ==
    (pc \notin {"idle", "done", "aborted"} /\ pc' = "aborted") => dbFaults' > dbFaults

C11_SelectedRunCompletes ==
    /\ (pc \notin {"idle", "done", "aborted"}) ~> (pc \in {"done", "aborted"})
    /\ [](C11_AllVisitedAtEnd)
    /\ [][C11_MissIsRequested /\ C11_EndsEarlyOnlyOnStoreFault]_vars

\* C15: within one run, no document request is outstanding for a (title, date)
\* that is resolved: its Snapshot is in the store, or the run marked it.
C15_NoRequestForResolvedPair ==
    pc = "fetching" => (RowsOf(cacheKey) = {} /\ cacheKey \notin processedSnapshots)

\* C16: within one run, no document request is outstanding for a (title, date)
\* that used up its MAX_TRIES attempts earlier in that run.
C16_NoRequestAfterExhaustion ==
    pc = "fetching" => cacheKey \notin exhausted

\* C17: after a failed attempt a backoff wait happens only with fewer than
\* MAX_TRIES attempts made and is followed by another attempt; after the
\* MAX_TRIES-th failed attempt the pair is left with no backoff wait; and
\* successive backoff delays increase strictly.
C17_AfterFailedAttempt ==
    pc = "catch" =>
        IF tries < MAX_TRIES
        THEN slept' = slept + BackoffMs(tries) /\ pc' = "attempt"
        ELSE slept' = slept /\ pc' = "polite"

C17_AttemptStateMachine ==
    /\ \A t \in 1..(MAX_TRIES - 1) : 0 < BackoffMs(t) /\ BackoffMs(t) < BackoffMs(t + 1)
    /\ [][C17_AfterFailedAttempt]_vars

\* a column holds SQL NULL
IsNull(v) == ToString(v) = ToString(NULL)

AgencyRow(slug) ==
    agencies_tbl[CHOOSE i \in 1..Len(agencies_tbl) : agencies_tbl[i].slug = slug]

\* C18: at the end of a run from an empty store in which every fetch succeeded,
\* every processed agency has latest_word_count and latest_checksum set, to the
\* values of a Snapshot of SNAPSHOT_DATES[1] of one of its titles.
C18_LatestFieldsSet ==
    (pc = "done" /\ run = 1 /\ clean[1] /\ dbFaults = 0)
        => \A a \in 1..Len(agencies) :
              LET row == AgencyRow(agencies[a].slug)
                  refs == agencies[a].cfr_references
              IN  /\ ~IsNull(row.latest_word_count)
                  /\ ~IsNull(row.latest_checksum)
                  /\ \E r \in 1..Len(refs), j \in 1..Len(snapshots) :
                        /\ snapshots[j].title = refs[r].title
                        /\ snapshots[j].snapshot_date = SNAPSHOT_DATES[1]
                        /\ snapshots[j].word_count = row.latest_word_count
                        /\ snapshots[j].checksum = row.latest_checksum

\* the short_name the run stores for a feed entry (line 74)
FeedShortName(a) == IF a.short_name = NULL THEN a.name ELSE a.short_name

\* C19: after a run, every agency of the processed feed has exactly one
\* agencies row, whose name and short_name are the values of the feed of that
\* run, also when the row existed before with other values.
C19_RowsMatchFeed ==
    pc = "done" =>
        \A a \in 1..Len(agencies) :
            /\ Cardinality({i \in 1..Len(agencies_tbl) :
                                agencies_tbl[i].slug = agencies[a].slug}) = 1
            /\ AgencyRow(agencies[a].slug).name = agencies[a].name
            /\ AgencyRow(agencies[a].slug).short_name = FeedShortName(agencies[a])

\* C20: a step changes snapshots only by the insert of one row at the end: the
\* rows already there stay as they are, in this run and in every later one.
C20_OnlyInsert ==
    snapshots' # snapshots
        => /\ pc = "insert"
           /\ Len(snapshots') = Len(snapshots) + 1
           /\ SubSeq(snapshots', 1, Len(snapshots)) = snapshots

C20_SnapshotsWriteOnce == [][C20_OnlyInsert]_vars

\* a later run found rows in the store and ended with a further key stored
C20_Witness ==
    /\ pc = "done" /\ run >= 2
    /\ atStart # {}
    /\ KeysStored(snapshots) # atStart

\* What holds of C21: a run that gets no agency list, the directory request
\* having failed or listed none, ends at once with the store as it was and
\* no document request issued.
C21_StartWithoutAgencies ==
    (pc \in {"idle", "done", "aborted"} /\ run' = run + 1 /\ agencies' = <<>>)
        => /\ pc' \in {"done", "aborted"}
           /\ storeVars' = storeVars
           /\ ~requested' /\ outstanding' = 0

C21_FeedLevelEndIsClean == [][C21_StartWithoutAgencies]_vars

\* C21: a run without an agency list ends with nothing written and nothing
\* requested, and once the first agency has been upserted no failure ends the
\* run before its regular end.
C21_NoLaterAbort ==
    (pc \notin {"idle", "done", "aborted"} /\ pc' = "aborted") => (pc = "agency" /\ ai = 1)

C21_OnlyFeedFailureEndsRun == [][C21_StartWithoutAgencies /\ C21_NoLaterAbort]_vars

(***************************************************************************)
(* runSync of src/unnamed/part_000                                         *)
(***************************************************************************)
\* part_000:120  setTimeout(r, 150)
GOLDEN_DELAY_MS == 150

\* feeds for part_000, which applies no slice
GoldenFeedOne ==
    << Agency("nr", "NoRefs", "NR", <<>>),
       Agency("a", "Agency A", "AA", <<Ref(1, "I")>>) >>

GoldenFeedChapters ==
    << Agency("a", "Agency A", NULL, <<Ref(1, "I"), Ref(1, "II")>>) >>

GoldenFeeds == {GoldenFeedOne, GoldenFeedChapters}

\* bodies a 2xx structure response may carry
GoldenBodies == {"", "<html>", "{}", "{\"size\":0}", "{\"size\":7}"}

\* whether JSON.parse(rawText) returns rather than throws
IsJSON(rawText) == rawText \in {"{}", "{\"size\":0}", "{\"size\":7}"}

\* JSON.parse(rawText) of a JSON text; has_size tells whether the field is there
JSONParse(rawText) ==
    CASE rawText = "{\"size\":0}" -> [has_size |-> TRUE, size |-> 0]
      [] rawText = "{\"size\":7}" -> [has_size |-> TRUE, size |-> 7]
      [] OTHER -> [has_size |-> FALSE, size |-> 0]

\* structure.size || 0
SizeOrZero(structure) == IF structure.has_size THEN structure.size ELSE 0

SpecGoldenInit ==
    /\ data = <<>>
    /\ upstream = <<>>
    /\ SyncIdle
    /\ g_data \in GoldenFeeds
    /\ GoldenIdle

g_agency(w) == g_agencyList[w][g_pos[w].ai]
g_ref(w) == g_agency(w).cfr_references[g_pos[w].ri]
g_key(w) == <<g_ref(w).title, SNAPSHOT_DATES[g_pos[w].di]>>

\* SELECT id FROM snapshots WHERE title_number=${title} AND snapshot_date=${date}
GoldenExists(rows, k) ==
    {i \in 1..Len(rows) : rows[i].title_number = k[1] /\ rows[i].snapshot_date = k[2]}

\* control after the body of the date loop (the loops of lines 51, 63 and 72)
GoldenAdvance(w) ==
    LET p == g_pos[w]
    IN  IF p.di < Len(SNAPSHOT_DATES)
        THEN /\ g_pos' = [g_pos EXCEPT ![w].di = p.di + 1]
             /\ g_pc' = [g_pc EXCEPT ![w] = "check"]
        ELSE IF p.ri < Len(g_agency(w).cfr_references)
        THEN /\ g_pos' = [g_pos EXCEPT ![w].ri = p.ri + 1, ![w].di = 1]
             /\ g_pc' = [g_pc EXCEPT ![w] = "reference"]
        ELSE IF p.ai < Len(g_agencyList[w])
        THEN /\ g_pos' = [g_pos EXCEPT ![w].ai = p.ai + 1, ![w].ri = 1, ![w].di = 1]
             /\ g_pc' = [g_pc EXCEPT ![w] = "agency"]
        ELSE /\ g_pos' = g_pos
             /\ g_pc' = [g_pc EXCEPT ![w] = "done"]

\* line 119, then the await of line 120
GoldenMark(w) ==
    /\ checkedSnapshots' = [checkedSnapshots EXCEPT ![w] = @ \cup {g_key(w)}]
    /\ g_pc' = [g_pc EXCEPT ![w] = "sleep"]

\* lines 43-49
GoldenStartRun(w) ==
    /\ g_pc[w] = "idle"
    /\ g_agencyList' = [g_agencyList EXCEPT ![w] = FilterWithRefs(g_data)]
    /\ checkedSnapshots' = [checkedSnapshots EXCEPT ![w] = {}]
    /\ g_pc' = [g_pc EXCEPT ![w] = IF FilterWithRefs(g_data) = <<>> THEN "done" ELSE "agency"]
    /\ UNCHANGED <<statsVars, syncVars, g_rejected, g_agencies, g_references, g_snapshots, g_data, g_pos,
                   g_size, g_requested, g_slept>>

\* lines 52-59: INSERT ... ON CONFLICT(slug) DO UPDATE SET last_updated_date
GoldenUpsertRows(rows, a) ==
    IF \E i \in 1..Len(rows) : rows[i].slug = a.slug
    THEN [i \in 1..Len(rows) |->
            IF rows[i].slug = a.slug
            THEN [rows[i] EXCEPT !.last_updated_date = SNAPSHOT_DATES[1]]
            ELSE rows[i]]
    ELSE Append(rows, [slug |-> a.slug, name |-> a.name,
                       short_name |-> IF a.short_name = NULL THEN a.name ELSE a.short_name,
                       last_updated_date |-> SNAPSHOT_DATES[1]])

GoldenUpsertAgency(w) ==
    /\ g_pc[w] = "agency"
    /\ g_agencies' = GoldenUpsertRows(g_agencies, g_agency(w))
    /\ g_pc' = [g_pc EXCEPT ![w] = "reference"]
    /\ UNCHANGED <<statsVars, syncVars, g_rejected, g_references, g_snapshots, g_data, g_agencyList, g_pos,
                   checkedSnapshots, g_size, g_requested, g_slept>>

\* line 70: INSERT OR IGNORE under UNIQUE(agency_slug, title_number)
GoldenInsertOrIgnore(rows, slug, t, ch) ==
    IF \E i \in 1..Len(rows) : rows[i].agency_slug = slug /\ rows[i].title_number = t
    THEN rows
    ELSE Append(rows, [agency_slug |-> slug, title_number |-> t, chapter |-> ch])

GoldenInsertReference(w) ==
    /\ g_pc[w] = "reference"
    /\ g_references' = GoldenInsertOrIgnore(g_references, g_agency(w).slug,
                                            g_ref(w).title, g_ref(w).chapter)
    /\ g_pc' = [g_pc EXCEPT ![w] = "check"]
    /\ UNCHANGED <<statsVars, syncVars, g_rejected, g_agencies, g_snapshots, g_data, g_agencyList, g_pos,
                   checkedSnapshots, g_size, g_requested, g_slept>>

\* lines 73-77: the key is in the in-run set
GoldenSkipChecked(w) ==
    /\ g_pc[w] = "check"
    /\ g_key(w) \in checkedSnapshots[w]
    /\ GoldenAdvance(w)
    /\ UNCHANGED <<statsVars, syncVars, g_rejected, g_agencies, g_references, g_snapshots, g_data,
                   g_agencyList, checkedSnapshots, g_size, g_requested, g_slept>>

\* lines 79-85: the store has a row for the key
GoldenSkipStored(w) ==
    /\ g_pc[w] = "check"
    /\ g_key(w) \notin checkedSnapshots[w]
    /\ GoldenExists(g_snapshots, g_key(w)) # {}
    /\ checkedSnapshots' = [checkedSnapshots EXCEPT ![w] = @ \cup {g_key(w)}]
    /\ GoldenAdvance(w)
    /\ UNCHANGED <<statsVars, syncVars, g_rejected, g_agencies, g_references, g_snapshots, g_data,
                   g_agencyList, g_size, g_requested, g_slept>>

\* lines 79-90: no row for the key, the structure request is issued
GoldenIssueRequest(w) ==
    /\ g_pc[w] = "check"
    /\ g_key(w) \notin checkedSnapshots[w]
    /\ GoldenExists(g_snapshots, g_key(w)) = {}
    /\ g_requested' = [g_requested EXCEPT ![w] = TRUE]
    /\ g_slept' = [g_slept EXCEPT ![w] = 0]
    /\ g_pc' = [g_pc EXCEPT ![w] = "fetching"]
    /\ UNCHANGED <<statsVars, syncVars, g_rejected, g_agencies, g_references, g_snapshots, g_data,
                   g_agencyList, g_pos, checkedSnapshots, g_size>>

\* line 90 throws (caught at line 115), or the status is not 2xx (line 92)
GoldenResponseFails(w) ==
    /\ g_pc[w] = "fetching"
    /\ GoldenMark(w)
    /\ UNCHANGED <<statsVars, syncVars, g_rejected, g_agencies, g_references, g_snapshots, g_data,
                   g_agencyList, g_pos, g_size, g_requested, g_slept>>

\* lines 92-113: a 2xx response with body rawText
GoldenResponseOk(w) ==
    /\ g_pc[w] = "fetching"
    /\ \E rawText \in GoldenBodies :
        IF rawText = ""
        THEN \* lines 95-98: continue
             /\ GoldenAdvance(w)
             /\ UNCHANGED <<checkedSnapshots, g_size>>
        ELSE IF ~IsJSON(rawText)
        THEN \* line 100 throws, caught at line 115
             /\ GoldenMark(w)
             /\ UNCHANGED <<g_pos, g_size>>
        ELSE IF SizeOrZero(JSONParse(rawText)) > 0
        THEN \* line 105: on to the insert
             /\ g_size' = [g_size EXCEPT ![w] = SizeOrZero(JSONParse(rawText))]
             /\ g_pc' = [g_pc EXCEPT ![w] = "insert"]
             /\ UNCHANGED <<g_pos, checkedSnapshots>>
        ELSE \* lines 111-113
             /\ GoldenMark(w)
             /\ UNCHANGED <<g_pos, g_size>>
    /\ UNCHANGED <<statsVars, syncVars, g_rejected, g_agencies, g_references, g_snapshots, g_data,
                   g_agencyList, g_requested, g_slept>>

\* the INSERT of lines 106-109 against a table without the UNIQUE constraint
GoldenInsertRowsNoUnique(rows, k, size) ==
    Append(rows, [title_number |-> k[1], snapshot_date |-> k[2], byte_size |-> size])

\* lines 106-109 under UNIQUE(title_number, snapshot_date): a conflicting insert
\* throws and leaves the table as it is (caught at line 115)
GoldenInsertRows(rows, k, size) ==
    IF GoldenExists(rows, k) # {}
    THEN rows
    ELSE Append(rows, [title_number |-> k[1], snapshot_date |-> k[2], byte_size |-> size])

GoldenInsertSnapshot(w) ==
    /\ g_pc[w] = "insert"
    /\ g_snapshots' = GoldenInsertRows(g_snapshots, g_key(w), g_size[w])
    /\ g_rejected' = IF GoldenExists(g_snapshots, g_key(w)) # {}
                     THEN g_rejected \cup {<<w, g_key(w)>>}
                     ELSE g_rejected
    /\ g_size' = [g_size EXCEPT ![w] = NULL]
    /\ GoldenMark(w)
    /\ UNCHANGED <<statsVars, syncVars, g_agencies, g_references, g_data, g_agencyList, g_pos,
                   g_requested, g_slept>>

\* line 120: the 150 ms delay, then the next date
GoldenSleep(w) ==
    /\ g_pc[w] = "sleep"
    /\ g_slept' = [g_slept EXCEPT ![w] = @ + GOLDEN_DELAY_MS]
    /\ GoldenAdvance(w)
    /\ UNCHANGED <<statsVars, syncVars, g_rejected, g_agencies, g_references, g_snapshots, g_data,
                   g_agencyList, checkedSnapshots, g_size, g_requested>>

SpecGoldenNext ==
    \E w \in Workers :
        \/ GoldenStartRun(w)
        \/ GoldenUpsertAgency(w)
        \/ GoldenInsertReference(w)
        \/ GoldenSkipChecked(w)
        \/ GoldenSkipStored(w)
        \/ GoldenIssueRequest(w)
        \/ GoldenResponseFails(w)
        \/ GoldenResponseOk(w)
        \/ GoldenInsertSnapshot(w)
        \/ GoldenSleep(w)

SpecGolden == SpecGoldenInit /\ [][SpecGoldenNext]_vars

(***************************************************************************)
(* Properties of src/unnamed/part_000                                      *)
(***************************************************************************)
GoldenKeysStored == {<<g_snapshots[i].title_number, g_snapshots[i].snapshot_date>> :
                        i \in 1..Len(g_snapshots)}

\* C9: in every reachable state each key in a run's checkedSnapshots has a
\* snapshot row in the store (a failed or size-0 request does not mark its key).
C9_CheckedKeysAreStored ==
    \A w \in Workers : checkedSnapshots[w] \subseteq GoldenKeysStored

\* C10: a worker issues a document request that is not its first only after
\* the 150 ms delay that follows its request before, whatever that request's outcome.
C10_IssueAfterDelay ==
    \A w \in Workers :
        (g_pc[w] = "check" /\ g_pc'[w] = "fetching" /\ g_requested[w])
            => g_slept[w] >= GOLDEN_DELAY_MS

C10_DelayAfterEveryRequest == [][C10_IssueAfterDelay]_vars

(***************************************************************************)
(* getAgencyStats of src/server.tsx over drawn store contents              *)
(***************************************************************************)
MaxStatsSnaps == 3

\* snapshot_date values: 365 days apart, and three days on either side of that
StatsDates == {Today - 368, Today - 3, Today}
StatsWords == {1000, 1100}
StatsSlugs == {"a", "b", "c"}

StatsRef(slug, t) == [agency_slug |-> slug, title_number |-> t, chapter |-> "I"]

\* agency_references declares no uniqueness: a pair may be stored twice
StatsRefTables ==
    { <<>>,
      <<StatsRef("a", 1)>>,
      <<StatsRef("a", 1), StatsRef("a", 2)>>,
      <<StatsRef("a", 1), StatsRef("b", 1)>>,
      <<StatsRef("a", 1), StatsRef("a", 1)>> }

StatsSnapshotRows ==
    [title : Titles, snapshot_date : StatsDates, word_count : StatsWords, checksum : {0}]

\* snapshots declares no uniqueness either: rows may share (title, snapshot_date)
StatsSnapshotTables == UNION {[1..n -> StatsSnapshotRows] : n \in 0..MaxStatsSnaps}

SpecStatsInit ==
    /\ data = <<>>
    /\ upstream = <<>>
    /\ agencies_tbl = <<>>
    /\ agency_references \in StatsRefTables
    /\ snapshots \in StatsSnapshotTables
    /\ WorkerIdle
    /\ StatsIdle
    /\ g_data = <<>>
    /\ GoldenIdle

\* a call of getAgencyStats(slug)
CallGetAgencyStats ==
    \E slug \in StatsSlugs :
        /\ stats' = getAgencyStats(slug)
        /\ statsSlug' = slug
        /\ divisors' = LET history == History(agency_references, snapshots, slug)
                       IN  IF Divides(history) THEN {Years(history)} ELSE {}
        /\ UNCHANGED <<syncVars, goldenVars>>

SpecStatsNext == CallGetAgencyStats

SpecStats == SpecStatsInit /\ [][SpecStatsNext]_vars

\* round(diff / years) with years = days / 365.25 taken as a fraction, and 0
\* unless years exceeds 0.01 (400 * days > 1461)
FractionalVelocity(history) ==
    LET days == history[1].snapshot_date - history[Len(history)].snapshot_date
        diff == history[1].total_words - history[Len(history)].total_words
    IN  IF 400 * days > 1461 THEN RoundDiv(1461 * diff, 4 * days) ELSE 0

\* C12: for a series with at least two distinct dates, velocity is
\* round((newest.total_words - oldest.total_words) / years) with years the
\* fractional number of 365.25-day years between the two dates, when years
\* exceeds 0.01, and 0 otherwise.
C12_VelocityUsesFractionalYears ==
    (statsSlug # NULL /\ Len(stats.history) >= 2)
        => stats.velocity = FractionalVelocity(stats.history)

\* C13: with fewer than two distinct dates in the agency's series, velocity is
\* 0, the history is returned as queried, and latest_count is the single
\* point's total_words, or 0 when the series is empty.
C13_FewerThanTwoDates ==
    LET queried == History(agency_references, snapshots, statsSlug)
    IN  (statsSlug # NULL /\ Len(queried) < 2)
            => /\ stats.velocity = 0
               /\ stats.history = queried
               /\ stats.latest_count =
                     IF Len(queried) = 1 THEN queried[1].total_words ELSE 0

\* a call whose series has one point, summed over two joined rows
C13_Witness ==
    /\ statsSlug # NULL
    /\ Len(stats.history) = 1
    /\ Cardinality(JoinRows(agency_references, snapshots, statsSlug)) >= 2
    /\ stats.latest_count >= 2000
    /\ stats.velocity = 0

\* C14: for any store contents, also with several snapshot rows carrying the
\* same date, the dates of the computed series are pairwise distinct and the
\* division by years is performed only with years strictly positive.
C14_NoDivisionByZero ==
    statsSlug # NULL
        => /\ \A i, j \in 1..Len(stats.history) :
                i # j => stats.history[i].snapshot_date # stats.history[j].snapshot_date
           /\ \A y \in divisors : y > 0

\* a call that divided, over a store with two joined rows of one date
C14_Witness ==
    /\ statsSlug # NULL
    /\ divisors # {}
    /\ \E p, q \in JoinRows(agency_references, snapshots, statsSlug) :
          p # q /\ snapshots[p[2]].snapshot_date = snapshots[q[2]].snapshot_date

\* C22: with two runs interleaved at their awaits against one store, no
\* (title_number, snapshot_date) has two snapshot rows and no (agency_slug,
\* title_number) has two reference rows; an insert the store rejects as a
\* duplicate leaves the store as it is, and the run that issued it goes on to
\* line 119 and the delay while the other run stays where it is.
C22_UniqueRows ==
    /\ \A i, j \in 1..Len(g_snapshots) :
          (g_snapshots[i].title_number = g_snapshots[j].title_number
              /\ g_snapshots[i].snapshot_date = g_snapshots[j].snapshot_date) => i = j
    /\ \A i, j \in 1..Len(g_references) :
          (g_references[i].agency_slug = g_references[j].agency_slug
              /\ g_references[i].title_number = g_references[j].title_number) => i = j

C22_RejectedInsert ==
    \A w \in Workers :
        (g_pc[w] = "insert" /\ g_pc'[w] # "insert"
            /\ GoldenExists(g_snapshots, g_key(w)) # {})
        => /\ <<g_agencies, g_references, g_snapshots>>' = <<g_agencies, g_references, g_snapshots>>
           /\ g_pc'[w] = "sleep"
           /\ g_key(w) \in checkedSnapshots'[w]
           /\ \A v \in Workers \ {w} : g_pc'[v] = g_pc[v]

C22_InterleavedRunsKeepUniqueness ==
    [](C22_UniqueRows) /\ [][C22_RejectedInsert]_vars

\* the store rejected an insert of one run for a key the other run had stored
\* in between, and both runs ended
C22_Witness ==
    /\ g_rejected # {}
    /\ \A w \in Workers : g_pc[w] = "done"
    /\ Len(g_snapshots) >= 1
    /\ Len(g_references) >= 1

====
